---- MODULE Spec2Model ----
(***************************************************************************)
(* The screenshot cache of showhn: fetch() (the spec's resolve()) of       *)
(* scripts/fetch_screenshots.py, the Fetcher thread it starts, and         *)
(* screenshot()/save_file_to_fs of scripts/screenshot_api.py.              *)
(*                                                                         *)
(* Every call of fetch() is a thread (or a process: the cron task) of its  *)
(* own; the cache directory is the only state the threads share.  A step   *)
(* of the model is one access to the directory, together with the local    *)
(* computation that follows it.                                            *)
(***************************************************************************)
EXTENDS Integers, Sequences, FiniteSets, TLC

\* ---------------------------------------------------------------- bounds
NumCalls == 3            \* calls of fetch() in one behaviour
MaxItems == 6            \* requests of all the calls of one behaviour
MaxActive == 2           \* calls whose thread or Fetcher runs at one time
MaxClock == 3            \* the wall clock runs from 1 to MaxClock

\* ------------------------------------------------------ program constants
MIN_USABLE == 100        \* "if len(temp) < 100"
TokenLen == 13           \* len(str(time())), e.g. "1322000000.12"
Res == 2                 \* clock units per digit str() keeps of time()

DUMMY_FILENAME == [dir |-> "static/", id |-> 0, name |-> "dummy.png"]
NONE_FILENAME == [dir |-> "static/", id |-> 0, name |-> "none.png"]

None == "None"
Calls == 1..NumCalls
Ids == {1, 2, 3}
Req(i, u) == [id |-> i, url |-> u]

\* The batches a caller hands to fetch(): a page of the search results (the
\* spec's scenario) and a page of one post.  The search lists a post once.
Scenario == <<Req(1, "a"), Req(2, None), Req(3, "b")>>
Batches == { <<Req(1, "a")>>, Scenario }

\* directory, as the callers write it: "static/images" or with the slash
Dirs == { <<"images">>, <<"images", "/">> }

\* fetch(), lines 17-20
FormatDir(directory) ==
    IF directory[Len(directory)] = "/" THEN directory ELSE Append(directory, "/")

\* formatted_dir + str(id_name) + '.png' / '.jpg'
PngFilename(fdir, i) == [dir |-> fdir[1] \o fdir[2], id |-> i, name |-> ".png"]
JpgFilename(fdir, i) == [dir |-> fdir[1] \o fdir[2], id |-> i, name |-> ".jpg"]

\* ---------------------------------------------------------- file contents
\* kind: absent (no file), token (a time string, val), image (bytes a fetch
\* of task val wrote; val 0: written before the run), mixed (bytes of two
\* writers), empty (truncated).  len is the length in bytes.
Absent == [kind |-> "absent", val |-> 0, len |-> 0]
\* Empty with a slip: the file is removed before it is written again
EmptyRemoved == [kind |-> "absent", val |-> 0, len |-> 0]
Empty == [kind |-> "empty", val |-> 0, len |-> 0]
Token(t) == [kind |-> "token", val |-> t, len |-> TokenLen]
Image(c, n) == [kind |-> "image", val |-> c, len |-> n]
Mixed(n) == [kind |-> "mixed", val |-> 0, len |-> n]

\* str(time()): "%.12g" keeps two decimals of an epoch time, rounding
TimeStr(t) == (t + Res \div 2) \div Res

\* the bodies the provider sends: a thumbnail, or a short (malformed) body
Bodies == {MIN_USABLE - 1, MIN_USABLE}

VARIABLES
    png,        \* png[i]: content of {i}.png
    jpg,        \* jpg[i]: {i}.jpg exists
    mode,       \* mode[i]: what open() of {i}.png allows: "rw", "wo", "none"
    clock,      \* the wall clock, time()
    pc,         \* pc[c]: where call c of fetch() is
    fdir,       \* fdir[c]: formatted_dir
    batch,      \* batch[c]: ids_and_urls
    idx,        \* idx[c]: position of the for loop in batch[c]
    ret,        \* ret[c]: ret_dict
    tbf,        \* tbf[c]: to_be_found
    fpc,        \* fpc[c]: where the Fetcher thread of call c is
    fidx,       \* fidx[c]: position of the Fetcher's loop in tbf[c]
    \* history (read by no action)
    allOk,      \* every provider call so far sent a thumbnail
    wrote,      \* wrote[c]: the <<id, token>> call c wrote into {id}.png
    superseded, \* <<c, i, d>>: call d wrote another token into {i}.png
                \* before the fetch of call c's item for i had ended
    commits,    \* <<c, i>>: the Fetcher of call c wrote a body into {i}.png
    calm,       \* since the latest call began, no other thread wrote a png
    h,          \* h[c]: what call c found when it began
    \* scripts/Search.py and scripts/update.py
    upc,        \* where the script is: "off", "call", "done", "while",
                \* "returned"
    list_with_duplicates,   \* the argument of remove_duplicate_results
    insertions, \* what remove_duplicate_results returned
    results,    \* what the search provider holds for the query, newest first
    collection, \* the item ids of the posts stored in posts_collection
    loops,      \* get_new_posts: the pages asked for so far
    repeat,     \* get_new_posts: a stored post was met
    to_be_inserted  \* get_new_posts: the posts gathered so far

script == <<upc, list_with_duplicates, insertions, results, collection,
            loops, repeat, to_be_inserted>>
vars == <<png, jpg, mode, clock, pc, fdir, batch, idx, ret, tbf, fpc, fidx,
          allOk, wrote, superseded, commits, calm, h, script>>
files == <<png, jpg, mode>>
hist == <<allOk, wrote, superseded, commits, calm, h>>

\* ------------------------------------------------------------ file system
\* open(filename) for reading succeeds
Readable(i) == png[i].kind # "absent" /\ mode[i] = "rw"
\* open(filename, 'w') succeeds
Writable(i) == mode[i] # "none"

\* write(data) at offset 0 of a file holding cur
WriteAt0(cur, data) ==
    IF data.len >= cur.len THEN data ELSE Mixed(cur.len)

\* ret_dict[k] = v
Put(d, k, v) == [x \in DOMAIN d \cup {k} |-> IF x = k THEN v ELSE d[x]]
EmptyDict == [x \in {} |-> 0]

\* ------------------------------------------------------------------- Init
\* what a cache directory holds for an id when the program starts
InitPng == {Absent, Token(0), Image(0, MIN_USABLE - 1), Image(0, MIN_USABLE)}

NoHist == [empty |-> FALSE, quiet |-> FALSE, done |-> {}, after |-> FALSE,
           alone |-> FALSE]

\* the update script is not running
ScriptOff ==
    /\ upc = "off"
    /\ list_with_duplicates = <<>>
    /\ insertions = <<>>
    /\ results = <<>>
    /\ collection = {}
    /\ loops = 0
    /\ repeat = FALSE
    /\ to_be_inserted = <<>>

InitCalls ==
    /\ clock = 1
    /\ pc = [c \in Calls |-> "idle"]
    /\ fdir = [c \in Calls |-> <<>>]
    /\ batch = [c \in Calls |-> <<>>]
    /\ idx = [c \in Calls |-> 0]
    /\ ret = [c \in Calls |-> EmptyDict]
    /\ tbf = [c \in Calls |-> <<>>]
    /\ fpc = [c \in Calls |-> "none"]
    /\ fidx = [c \in Calls |-> 0]
    /\ allOk = TRUE
    /\ wrote = [c \in Calls |-> <<>>]
    /\ superseded = {}
    /\ commits = {}
    /\ calm = FALSE
    /\ h = [c \in Calls |-> NoHist]
    /\ ScriptOff

InitFiles ==
    /\ png \in [Ids -> InitPng]
    /\ png[2] \in {Absent, Image(0, MIN_USABLE)}
    /\ png[3] = Absent
    /\ jpg \in [Ids -> BOOLEAN]
    /\ ~jpg[2] /\ ~jpg[3]

\* a cache directory of ordinary files
Init ==
    /\ InitFiles
    /\ mode = [i \in Ids |-> "rw"]
    /\ InitCalls

\* any cache directory: 1.png may be write-only or closed to this user, or
\* the directory may not take a new file
InitAnyDir ==
    /\ InitFiles
    /\ mode \in [Ids -> {"rw", "wo", "none"}]
    /\ mode[2] = "rw" /\ mode[3] = "rw"
    /\ InitCalls

\* ---------------------------------------------------------------- history
Quiescent ==
    \A c \in Calls :
        /\ pc[c] \in {"idle", "returned", "raised"}
        /\ fpc[c] \in {"none", "done"}
        /\ pc[c] = "returned" => fpc[c] = "done"

\* the ids of the items of a to_be_found list
TbfIds(c) == {tbf[c][k][1] : k \in 1..Len(tbf[c])}

\* the ids whose fetch some ended Fetcher thread had in its list
DoneIds == UNION {TbfIds(c) : c \in {d \in Calls : fpc[d] = "done"}}

\* call c's item for i is written and its fetch has not ended
Pending(c, i, t) ==
    \E k \in 1..Len(tbf[c]) :
        /\ tbf[c][k][1] = i
        /\ tbf[c][k][3] # t
        /\ fpc[c] = "none" \/ (fpc[c] # "done" /\ fidx[c] <= k)

\* the call that began last (0: none has)
Latest == IF pc[1] = "idle" THEN 0
          ELSE CHOOSE c \in Calls :
                  pc[c] # "idle" /\ \A d \in Calls : d > c => pc[d] = "idle"

\* calm, after a write of thread c (0: a Fetcher) into a png
Disturb(c) == calm /\ c = Latest

\* ----------------------------------------------------------------- fetch()
Item(c) == batch[c][idx[c]]

\* the requests of the calls so far
RECURSIVE SumLen(_)
SumLen(S) == IF S = {} THEN 0
             ELSE LET c == CHOOSE x \in S : TRUE IN Len(batch[c]) + SumLen(S \ {c})
Items == SumLen(Calls)

\* the calls that have a thread running
Active == {c \in Calls : pc[c] \in {"loop", "write"}
                          \/ fpc[c] \in {"run", "fetching", "body"}}

\* lines 16-27: a caller enters fetch()
ResolveStart(c, directory, b) ==
    /\ pc[c] = "idle"
    /\ \A d \in Calls : d < c => pc[d] # "idle"
    /\ Items + Len(b) <= MaxItems
    /\ Cardinality(Active) < MaxActive
    /\ pc' = [pc EXCEPT ![c] = "loop"]
    /\ fdir' = [fdir EXCEPT ![c] = FormatDir(directory)]
    /\ batch' = [batch EXCEPT ![c] = b]
    /\ idx' = [idx EXCEPT ![c] = 1]
    /\ calm' = TRUE
    /\ h' = [h EXCEPT ![c] =
                [empty |-> \A i \in Ids : png[i] = Absent /\ ~jpg[i],
                 quiet |-> Quiescent,
                 done |-> DoneIds,
                 after |-> c > 1 /\ pc[c - 1] = "returned" /\ calm,
                 alone |-> FALSE]]
    /\ UNCHANGED <<files, clock, ret, tbf, fpc, fidx>>
    /\ UNCHANGED <<allOk, wrote, superseded, commits>>
    /\ UNCHANGED script

\* NullUrl with a slip: "if url == '':" for "if url is None:"
NullUrlEmptyString(url) == url = ""

\* line 31: url is None
NullUrl(url) == url = None

\* lines 31-33: no url, no screenshot
ResolveNull(c) ==
    /\ pc[c] = "loop"
    /\ idx[c] <= Len(batch[c])
    /\ NullUrl(Item(c).url)
    /\ ret' = [ret EXCEPT ![c] = Put(@, Item(c).id, NONE_FILENAME)]
    /\ idx' = [idx EXCEPT ![c] = @ + 1]
    /\ UNCHANGED <<files, clock, pc, fdir, batch, tbf, fpc, fidx, hist>>
    /\ UNCHANGED script

\* FoundPng with a slip: the length of the file is not looked at
FoundPngAnyLength(i) == Readable(i)

\* FoundPng with a slip: "<=" for "<"
FoundPngOver(i) == Readable(i) /\ ~(png[i].len <= MIN_USABLE)

\* lines 34-44: the png is read, and is usable
FoundPng(i) == Readable(i) /\ ~(png[i].len < MIN_USABLE)

\* FoundJpg with a slip: '.jpeg' for '.jpg', a file that never exists
FoundJpgOtherName(i) == FALSE

\* lines 46-52: open(jpg_filename) succeeds; the file is closed unread
FoundJpg(i) == jpg[i]

\* lines 34-52: the look-up of the png and of the legacy jpg
ResolveLookup(c) ==
    /\ pc[c] = "loop"
    /\ idx[c] <= Len(batch[c])
    /\ ~NullUrl(Item(c).url)
    /\ LET i == Item(c).id IN
       IF FoundPng(i)
       THEN /\ ret' = [ret EXCEPT ![c] = Put(@, i, PngFilename(fdir[c], i))]
            /\ idx' = [idx EXCEPT ![c] = @ + 1]
            /\ pc' = pc
       ELSE IF FoundJpg(i)
       THEN /\ ret' = [ret EXCEPT ![c] = Put(@, i, JpgFilename(fdir[c], i))]
            /\ idx' = [idx EXCEPT ![c] = @ + 1]
            /\ pc' = pc
       ELSE /\ pc' = [pc EXCEPT ![c] = "write"]
            /\ UNCHANGED <<ret, idx>>
    /\ UNCHANGED <<files, clock, fdir, batch, tbf, fpc, fidx, hist>>
    /\ UNCHANGED script

\* Enqueue with a slip: insert(0, ...) for append(...)
EnqueueFront(list, i, url, time_str) == <<<<i, url, time_str>>>> \o list

\* line 58: to_be_found.append((id_name, url, time_str))
Enqueue(list, i, url, time_str) == Append(list, <<i, url, time_str>>)

\* lines 53-58: the token is written; open(png_filename, "w") is in no try
ResolveWriteToken(c) ==
    /\ pc[c] = "write"
    /\ LET i == Item(c).id IN
       \E now \in {clock, clock + 1} :
          /\ now <= MaxClock
          /\ clock' = now
          /\ IF Writable(i)
             THEN /\ png' = [png EXCEPT ![i] = Token(TimeStr(now))]
                  /\ ret' = [ret EXCEPT ![c] = Put(@, i, DUMMY_FILENAME)]
                  /\ tbf' = [tbf EXCEPT ![c] =
                                Enqueue(@, i, Item(c).url, TimeStr(now))]
                  /\ idx' = [idx EXCEPT ![c] = @ + 1]
                  /\ pc' = [pc EXCEPT ![c] = "loop"]
                  /\ wrote' = [wrote EXCEPT ![c] = Append(@, <<i, TimeStr(now)>>)]
                  /\ superseded' = superseded \cup
                        {<<d, i, c>> : d \in {e \in Calls \ {c} :
                                                Pending(e, i, TimeStr(now))}}
                  /\ calm' = Disturb(c)
             ELSE /\ pc' = [pc EXCEPT ![c] = "raised"]
                  /\ UNCHANGED <<png, ret, tbf, idx, wrote, superseded, calm>>
    /\ UNCHANGED <<jpg, mode, fdir, batch, fpc, fidx, allOk, commits, h>>
    /\ UNCHANGED script

\* Advance with a slip: the try around the for loop, not inside it, so the
\* thread ends with its first item
AdvanceOnce(c, k) == IF k > Len(tbf[c]) \/ k > 1 THEN "done" ELSE "run"

\* the Fetcher's for loop, line 68: the next item, or the end of the thread
Advance(c, k) == IF k > Len(tbf[c]) THEN "done" ELSE "run"

\* ResolveReturn with a slip: "fetcher(to_be_found, formatted_dir)" for the
\* Thread: fetch() runs the Fetcher's loop itself and returns after it
ResolveReturnInline(c) ==
    /\ pc[c] = "loop"
    /\ idx[c] > Len(batch[c])
    /\ fpc[c] \in {"none", "done"}
    /\ IF fpc[c] = "none"
       THEN /\ fidx' = [fidx EXCEPT ![c] = 1]
            /\ fpc' = [fpc EXCEPT ![c] = Advance(c, 1)]
            /\ UNCHANGED <<pc, h>>
       ELSE /\ pc' = [pc EXCEPT ![c] = "returned"]
            /\ h' = [h EXCEPT ![c].alone = calm /\ c = Latest]
            /\ UNCHANGED <<fpc, fidx>>
    /\ UNCHANGED <<files, clock, fdir, batch, idx, ret, tbf>>
    /\ UNCHANGED <<allOk, wrote, superseded, commits, calm>>
    /\ UNCHANGED script

\* lines 60-63: the thread is started and ret_dict returned
ResolveReturn(c) ==
    /\ pc[c] = "loop"
    /\ idx[c] > Len(batch[c])
    /\ pc' = [pc EXCEPT ![c] = "returned"]
    /\ fidx' = [fidx EXCEPT ![c] = 1]
    /\ fpc' = [fpc EXCEPT ![c] = Advance(c, 1)]
    /\ h' = [h EXCEPT ![c].alone = calm /\ c = Latest]
    /\ UNCHANGED <<files, clock, fdir, batch, idx, ret, tbf>>
    /\ UNCHANGED <<allOk, wrote, superseded, commits, calm>>
    /\ UNCHANGED script

\* ------------------------------------------------------- Fetcher.__call__
FItem(c) == tbf[c][fidx[c]]

\* NextIndex with a slip: a failed or skipped item is taken again
NextIndexAgain(k) == k

\* line 68: the for loop takes each item of the list once
NextIndex(k) == k + 1

\* TokenIsCurrent with a slip: "!=" for "=="
TokenIsCurrentInverted(i, time_str) ==
    Readable(i) /\ ~(png[i].kind = "token" /\ png[i].val = time_str)

\* lines 71-74: cur_str == time_str
TokenIsCurrent(i, time_str) ==
    Readable(i) /\ png[i].kind = "token" /\ png[i].val = time_str

\* lines 68-74: the file is read and compared with the item's token
FetchRead(c) ==
    /\ fpc[c] = "run"
    /\ IF TokenIsCurrent(FItem(c)[1], FItem(c)[3])
       THEN /\ fpc' = [fpc EXCEPT ![c] = "fetching"]
            /\ fidx' = fidx
       ELSE /\ fpc' = [fpc EXCEPT ![c] = Advance(c, NextIndex(fidx[c]))]
            /\ fidx' = [fidx EXCEPT ![c] = NextIndex(@)]
    /\ UNCHANGED <<files, clock, pc, fdir, batch, idx, ret, tbf, hist>>
    /\ UNCHANGED script

\* line 77, screenshot_api 22-31 and 39: urlopen answers or raises; on an
\* answer save_file_to_fs opens the file 'w', which truncates it
FetchOpen(c) ==
    /\ fpc[c] = "fetching"
    /\ \E answered \in BOOLEAN :
       LET i == FItem(c)[1] IN
       IF answered /\ Writable(i)
       THEN /\ png' = [png EXCEPT ![i] = Empty]
            /\ fpc' = [fpc EXCEPT ![c] = "body"]
            /\ calm' = Disturb(0)
            /\ UNCHANGED <<fidx, allOk>>
       ELSE /\ fpc' = [fpc EXCEPT ![c] = Advance(c, NextIndex(fidx[c]))]
            /\ fidx' = [fidx EXCEPT ![c] = NextIndex(@)]
            /\ allOk' = (allOk /\ answered)
            /\ UNCHANGED <<png, calm>>
    /\ UNCHANGED <<jpg, mode, clock, pc, fdir, batch, idx, ret, tbf>>
    /\ UNCHANGED <<wrote, superseded, commits, h>>
    /\ UNCHANGED script

\* screenshot_api 40-41: img_file.read() returns the body or raises; the
\* body is written at offset 0 and the file closed
FetchSave(c) ==
    /\ fpc[c] = "body"
    /\ \E n \in Bodies \cup {-1} :
       LET i == FItem(c)[1] IN
       IF n = -1
       THEN /\ allOk' = FALSE
            /\ UNCHANGED <<png, commits, calm>>
       ELSE /\ png' = [png EXCEPT ![i] = WriteAt0(@, Image(c, n))]
            /\ allOk' = (allOk /\ ~(n < MIN_USABLE))
            /\ commits' = commits \cup {<<c, i>>}
            /\ calm' = Disturb(0)
    /\ fpc' = [fpc EXCEPT ![c] = Advance(c, NextIndex(fidx[c]))]
    /\ fidx' = [fidx EXCEPT ![c] = NextIndex(@)]
    /\ UNCHANGED <<jpg, mode, clock, pc, fdir, batch, idx, ret, tbf>>
    /\ UNCHANGED <<wrote, superseded, h>>
    /\ UNCHANGED script

\* ------------------------------------------------------------------- Next
Next ==
    \E c \in Calls :
        \/ \E d \in Dirs, b \in Batches : ResolveStart(c, d, b)
        \/ ResolveNull(c)
        \/ ResolveLookup(c)
        \/ ResolveWriteToken(c)
        \/ ResolveReturn(c)
        \/ FetchRead(c)
        \/ FetchOpen(c)
        \/ FetchSave(c)

Spec == Init /\ [][Next]_vars

\* the same program on any cache directory
SpecAnyDir == InitAnyDir /\ [][Next]_vars

\* the steps a thread takes on its own: those of fetch() and the Fetcher's
\* read of the file.  urlopen(openable_url) is called with no timeout
\* (screenshot_api line 29; TIMEOUT of line 12 is not used), so the steps
\* that need the provider's answer, FetchOpen and FetchSave, are not among
\* them.
LocalStep(c) ==
    \/ ResolveNull(c)
    \/ ResolveLookup(c)
    \/ ResolveWriteToken(c)
    \/ ResolveReturn(c)
    \/ FetchRead(c)

\* a cache directory that holds no file yet
InitEmptyDir ==
    /\ png = [i \in Ids |-> Absent]
    /\ jpg = [i \in Ids |-> FALSE]
    /\ mode = [i \in Ids |-> "rw"]
    /\ InitCalls

\* the scheduler runs every thread that can take a step of its own
SpecFair ==
    InitEmptyDir /\ [][Next]_vars /\ \A c \in Calls : WF_vars(LocalStep(c))


\* -------------------------------------------------------- scripts/Search.py
MaxLen == 4              \* length of a list handed to remove_duplicate_results

\* a search result: the provider's key of the item, '_id', and the
\* Hacker News id of the post, 'id'
Elt(a, b) == [item |-> [_id |-> a, id |-> b]]
Elts == {Elt(a, b) : a \in 1..2, b \in 1..2}

\* the lists of at most n results
Lists(n) == UNION {[1..m -> Elts] : m \in 0..n}

\* the variables of fetch() and its Fetchers
fetchvars == <<png, jpg, mode, clock, pc, fdir, batch, idx, ret, tbf, fpc,
               fidx, allOk, wrote, superseded, commits, calm, h>>

\* no call of fetch() is made
FetchOff ==
    /\ png = [i \in Ids |-> Absent]
    /\ jpg = [i \in Ids |-> FALSE]
    /\ mode = [i \in Ids |-> "rw"]
    /\ clock = 1
    /\ pc = [c \in Calls |-> "idle"]
    /\ fdir = [c \in Calls |-> <<>>]
    /\ batch = [c \in Calls |-> <<>>]
    /\ idx = [c \in Calls |-> 0]
    /\ ret = [c \in Calls |-> EmptyDict]
    /\ tbf = [c \in Calls |-> <<>>]
    /\ fpc = [c \in Calls |-> "none"]
    /\ fidx = [c \in Calls |-> 0]
    /\ allOk = TRUE
    /\ wrote = [c \in Calls |-> <<>>]
    /\ superseded = {}
    /\ commits = {}
    /\ calm = FALSE
    /\ h = [c \in Calls |-> NoHist]

\* SeenId with a slip: ['item']['id'] for ['item']['_id']
SeenIdOtherKey(seen_id, elt) == elt.item.id \in seen_id

\* line 49: elt['item']['_id'] in seen_id
SeenId(seen_id, elt) == elt.item._id \in seen_id

\* lines 48-53: the for loop, at element k, with seen_id and results so far
RECURSIVE DedupLoop(_, _, _, _)
DedupLoop(list, k, seen_id, res) ==
    IF k > Len(list) THEN res
    ELSE IF SeenId(seen_id, list[k])
         THEN DedupLoop(list, k + 1, seen_id, res)
         ELSE DedupLoop(list, k + 1, seen_id \cup {list[k].item._id},
                        Append(res, list[k]))

\* lines 45-54
remove_duplicate_results(list) == DedupLoop(list, 1, {}, <<>>)

InitDedup ==
    /\ FetchOff
    /\ upc = "call"
    /\ list_with_duplicates \in Lists(MaxLen)
    /\ insertions = <<>>
    /\ results = <<>>
    /\ collection = {}
    /\ loops = 0
    /\ repeat = FALSE
    /\ to_be_inserted = <<>>

\* update.py line 40, Search.py line 60: the call
RemoveDuplicates ==
    /\ upc = "call"
    /\ insertions' = remove_duplicate_results(list_with_duplicates)
    /\ upc' = "done"
    /\ UNCHANGED <<list_with_duplicates, results, collection, loops, repeat,
                   to_be_inserted>>
    /\ UNCHANGED fetchvars

SpecDedup == InitDedup /\ [][RemoveDuplicates]_vars


\* -------------------------------------------------------- scripts/update.py
MaxPosts == 201          \* results the provider holds for the query
MaxLoops == 4            \* pages get_new_posts asks for in one behaviour

MAX_QUERY == 100         \* update.py line 17, Search.py line 12

\* the results of the query, newest first: posts n, n - 1, ..., 1
Newest(n) == [k \in 1..n |-> Elt(n + 1 - k, n + 1 - k)]

\* Search.search(query, start_point, modifier="create_ts desc"): the
\* provider's page of at most MAX_QUERY results from start_point on
search(start_point) ==
    IF start_point >= Len(results) THEN <<>>
    ELSE SubSeq(results, start_point + 1,
                IF start_point + MAX_QUERY < Len(results)
                THEN start_point + MAX_QUERY ELSE Len(results))

\* line 29: posts_collection.find_one({"item.id": post['item']['id']})
FindOne(post) == post.item.id \in collection

\* lines 28-31: the position of lst the for loop breaks at (0: none)
BreakAt(lst) ==
    IF \E k \in 1..Len(lst) : FindOne(lst[k])
    THEN CHOOSE k \in 1..Len(lst) :
            FindOne(lst[k]) /\ \A j \in 1..(k - 1) : ~FindOne(lst[j])
    ELSE 0

\* the provider holds up to MaxPosts posts, of which the collection has
\* the oldest ones (those of the runs before)
InitUpdate ==
    /\ FetchOff
    /\ upc = "while"
    /\ \E n \in 0..MaxPosts : results = Newest(n)
    /\ \E k \in 0..Len(results) : collection = 1..k
    /\ loops = 0
    /\ repeat = FALSE
    /\ to_be_inserted = <<>>
    /\ list_with_duplicates = <<>>
    /\ insertions = <<>>

\* lines 26-34: one turn of the while loop
GetNewPostsPage ==
    /\ upc = "while"
    /\ ~repeat
    /\ loops < MaxLoops
    /\ LET lst == search(loops * MAX_QUERY)
           at == BreakAt(lst)
       IN /\ repeat' = (at # 0)
          /\ to_be_inserted' = to_be_inserted \o
                (IF at = 0 THEN lst ELSE SubSeq(lst, 1, at - 1))
    /\ loops' = loops + 1
    /\ UNCHANGED <<upc, list_with_duplicates, insertions, results, collection>>
    /\ UNCHANGED fetchvars

\* lines 26 and 35: the loop ends and to_be_inserted is returned
GetNewPostsReturn ==
    /\ upc = "while"
    /\ repeat
    /\ upc' = "returned"
    /\ UNCHANGED <<list_with_duplicates, insertions, results, collection,
                   loops, repeat, to_be_inserted>>
    /\ UNCHANGED fetchvars

NextUpdate == GetNewPostsPage \/ GetNewPostsReturn

SpecUpdate == InitUpdate /\ [][NextUpdate]_vars


\* ================================================================ claims
BatchIds(c) == {batch[c][k].id : k \in 1..Len(batch[c])}

\* C1: once another call has written a newer token into {i}.png before the
\* fetch of call c's item for i ended, the image of that fetch does not
\* land: when every thread has ended, {i}.png does not hold the bytes the
\* Fetcher of call c wrote.
C1_StaleFetchNeverLands ==
    Quiescent =>
        \A s \in superseded :
            ~(png[s[2]].kind = "image" /\ png[s[2]].val = s[1])

\* C2: the Fetcher begins to overwrite {i}.png (save_file_to_fs opens it)
\* only in a state in which the file holds the token of its item.
C2_CommitComparesAtWrite ==
    [][\A c \in Calls :
          (fpc[c] = "fetching" /\ fpc'[c] = "body")
              => TokenIsCurrent(FItem(c)[1], FItem(c)[3])]_vars

\* C3, as claimed: with a provider that sends a thumbnail every time, a call
\* that begins after the task of a call that missed on i has ended maps i
\* to {cacheDir}/{i}.png.
C3_NextResolveFindsPng ==
    \A c \in Calls :
        (pc[c] = "returned" /\ allOk) =>
            \A k \in 1..Len(batch[c]) :
                (~NullUrl(batch[c][k].url) /\ batch[c][k].id \in h[c].done)
                    => ret[c][batch[c][k].id]
                           = PngFilename(fdir[c], batch[c][k].id)

\* C3, amended: the same, for a call that begins when every earlier call
\* has returned and every task scheduled so far has ended.
C3_ResolveAfterAllTasksFindsPng ==
    \A c \in Calls :
        (pc[c] = "returned" /\ allOk /\ h[c].quiet) =>
            \A k \in 1..Len(batch[c]) :
                (~NullUrl(batch[c][k].url) /\ batch[c][k].id \in h[c].done)
                    => ret[c][batch[c][k].id]
                           = PngFilename(fdir[c], batch[c][k].id)

C3_Witness ==
    \E c \in Calls :
        /\ pc[c] = "returned" /\ allOk /\ h[c].quiet
        /\ batch[c] = Scenario
        /\ h[c].done = {1, 3}
        /\ ret[c][1] = PngFilename(fdir[c], 1)
        /\ ret[c][3] = PngFilename(fdir[c], 3)

\* C4: no call of fetch() raises, and a call that returned has an entry for
\* every id of its batch, each a placeholder or the id's png or jpg path.
C4_CompleteMapping ==
    \A c \in Calls :
        /\ pc[c] # "raised"
        /\ pc[c] = "returned" =>
              /\ DOMAIN ret[c] = BatchIds(c)
              /\ \A i \in DOMAIN ret[c] :
                    ret[c][i] \in {NONE_FILENAME, DUMMY_FILENAME,
                                   PngFilename(fdir[c], i),
                                   JpgFilename(fdir[c], i)}

\* C5: a request without url that the loop has passed is mapped to the none
\* placeholder, is in no item of to_be_found, and the call wrote no token
\* into its png.
C5_NullShortCircuit ==
    \A c \in Calls :
        \A k \in 1..Len(batch[c]) :
            (k < idx[c] /\ batch[c][k].url = None) =>
                /\ batch[c][k].id \in DOMAIN ret[c]
                /\ ret[c][batch[c][k].id] = NONE_FILENAME
                /\ batch[c][k].id \notin TbfIds(c)
                /\ \A w \in 1..Len(wrote[c]) : wrote[c][w][1] # batch[c][k].id

C5_Witness ==
    \E c \in Calls :
        /\ pc[c] = "returned"
        /\ batch[c] = Scenario
        /\ png[2] = Image(0, MIN_USABLE)
        /\ ret[c][2] = NONE_FILENAME
        /\ TbfIds(c) = {1, 3}

\* C6: a request with a url whose png is missing, unreadable or shorter
\* than 100 bytes is handled as if the png were absent: it is never mapped
\* to the png path; with a legacy jpg it is mapped to the jpg, and else a
\* token is written, the dummy returned and the item put in the list.
C6_UnusablePngIsMiss ==
    [][\A c \in Calls :
          /\ ( /\ pc[c] = "loop" /\ idx[c] <= Len(batch[c])
               /\ ~NullUrl(Item(c).url)
               /\ ~(Readable(Item(c).id) /\ png[Item(c).id].len >= MIN_USABLE)
               /\ <<pc[c], idx[c]>> # <<pc'[c], idx'[c]>> )
             => IF jpg[Item(c).id]
                THEN /\ idx'[c] = idx[c] + 1
                     /\ ret'[c][Item(c).id] = JpgFilename(fdir[c], Item(c).id)
                ELSE pc'[c] = "write"
          /\ (pc[c] = "write" /\ pc'[c] # "write")
             => /\ pc'[c] = "loop"
                /\ idx'[c] = idx[c] + 1
                /\ png'[Item(c).id].kind = "token"
                /\ ret'[c][Item(c).id] = DUMMY_FILENAME
                /\ Len(tbf'[c]) = Len(tbf[c]) + 1
                /\ tbf'[c][Len(tbf'[c])][1] = Item(c).id]_vars

C8_FailureLeavesToken ==
    [][\A c \in Calls :
          ( /\ fpc[c] \in {"fetching", "body"}
            /\ fidx'[c] # fidx[c]
            /\ ~( /\ <<c, FItem(c)[1]>> \in commits'
                  /\ png'[FItem(c)[1]].kind = "image"
                  /\ png'[FItem(c)[1]].len >= MIN_USABLE ) )
              => png'[FItem(c)[1]] = Token(FItem(c)[3])]_vars

\* C9: of two calls that missed on the same id with different tokens, the
\* second before the fetch of the first had ended, at most one has a
\* Fetcher that overwrites {i}.png with a body.
C9_AtMostOneCommit ==
    \A s \in superseded :
        ~(<<s[1], s[2]>> \in commits /\ <<s[3], s[2]>> \in commits)

\* the items of call c's batch that it mapped to the dummy, in the order of
\* the batch, each with the token the call wrote into its png
WroteTok(c, i) ==
    LET ks == {k \in 1..Len(wrote[c]) : wrote[c][k][1] = i} IN
    IF ks = {} THEN -1
    ELSE wrote[c][CHOOSE k \in ks : \A j \in ks : j <= k][2]
MissItems(c) ==
    LET Missed(r) == r.id \in DOMAIN ret[c] /\ ret[c][r.id] = DUMMY_FILENAME
        sel == SelectSeq(batch[c], Missed)
    IN [k \in 1..Len(sel) |-> <<sel[k].id, sel[k].url, WroteTok(c, sel[k].id)>>]

\* C10: a call has started its one Fetcher thread exactly when it has
\* returned, and the list the thread carries is the items the call mapped
\* to the dummy, in request order, each (id, url, the token the call wrote
\* into {id}.png).  The scenario batch on an empty cache, with no other
\* writer, returns {1: dummy, 2: none, 3: dummy} and enqueues ids 1 and 3.
C10_MissList ==
    \A c \in Calls :
        /\ (fpc[c] # "none") <=> (pc[c] = "returned")
        /\ pc[c] = "returned" => tbf[c] = MissItems(c)
        /\ (pc[c] = "returned" /\ batch[c] = Scenario
                /\ h[c].empty /\ h[c].alone)
            => /\ ret[c] = [i \in {1, 2, 3} |->
                              IF i = 2 THEN NONE_FILENAME ELSE DUMMY_FILENAME]
               /\ [k \in 1..Len(tbf[c]) |-> tbf[c][k][1]] = <<1, 3>>
               /\ [k \in 1..Len(tbf[c]) |-> tbf[c][k][2]] = <<"a", "b">>

C10_Witness ==
    \E c \in Calls :
        /\ pc[c] = "returned" /\ batch[c] = Scenario
        /\ h[c].empty /\ h[c].alone
        /\ Len(tbf[c]) = 2
        /\ ret[c][3] = DUMMY_FILENAME

\* {i}.png holds a thumbnail a Fetcher of this run wrote
Committed(i) ==
    png[i].kind = "image" /\ png[i].val # 0 /\ ~(png[i].len < MIN_USABLE)

\* C11: a thumbnail that a Fetcher wrote into {i}.png stays: no step of a
\* call of fetch() and no step of a Fetcher (none holds a current token,
\* the file holding a thumbnail) replaces it by a token, truncates it or
\* removes it; after the step the file still holds 100 bytes or more of
\* image.
C11_UsableImageStays ==
    [][\A i \in Ids :
          Committed(i) => /\ png'[i].kind \in {"image", "mixed"}
                          /\ ~(png'[i].len < MIN_USABLE)]_vars

\* C12: fetch() makes no provider call and waits for none: a provider call
\* is in flight only in the Fetcher thread of a call that has returned, a
\* call in its loop has no Fetcher yet, and every call that began returns
\* whether or not the provider ever answers.
C12_ResolveNeverWaitsOnProvider ==
    /\ [](\A c \in Calls :
             /\ fpc[c] \in {"fetching", "body"} => pc[c] = "returned"
             /\ pc[c] \in {"loop", "write"} => fpc[c] = "none")
    /\ \A c \in Calls : (pc[c] = "loop") ~> (pc[c] = "returned")

C12_Witness ==
    \E c \in Calls, d \in Calls :
        /\ c < d
        /\ fpc[c] = "fetching"
        /\ pc[d] = "returned" /\ batch[d] = Scenario
        /\ fpc[d] = "fetching"

\* C13: every Fetcher thread that was started ends, also when the provider
\* never answers: the call of the provider is given up after TIMEOUT and
\* the thread goes on to its next item.
C13_TaskTerminates ==
    \A c \in Calls : (fpc[c] = "run") ~> (fpc[c] = "done")

\* the Fetcher of call c is in screenshot() or save_file_to_fs for id i
InFlight(c, i) ==
    fpc[c] \in {"fetching", "body"} /\ FItem(c)[1] = i

\* C14: the Fetchers of two calls that missed on the same id with distinct
\* tokens are never both in a provider fetch for that id.
C14_NoDuplicateFetch ==
    \A c \in Calls, d \in Calls, i \in Ids :
        (c # d /\ InFlight(c, i) /\ InFlight(d, i))
            => FItem(c)[3] = FItem(d)[3]

\* C15: the look-up of a request with a url whose png is readable and holds
\* 100 bytes or more maps the id to {directory}/{id}.png, leaves every
\* file as it is, writes no token and adds nothing to to_be_found.  A call
\* that repeats the scenario batch after a Fetcher of that batch wrote the
\* thumbnail of id 1, {3}.png holding none, and that no other thread
\* disturbs, returns {1: the png path, 2: none, 3: dummy}.
C15_HitOnPng ==
    [][\A c \in Calls :
          /\ ( /\ pc[c] = "loop" /\ idx[c] <= Len(batch[c])
               /\ ~NullUrl(Item(c).url)
               /\ Readable(Item(c).id) /\ png[Item(c).id].len >= MIN_USABLE
               /\ <<pc[c], idx[c]>> # <<pc'[c], idx'[c]>> )
             => /\ pc'[c] = "loop" /\ idx'[c] = idx[c] + 1
                /\ ret'[c][Item(c).id] = PngFilename(fdir[c], Item(c).id)
                /\ png' = png /\ jpg' = jpg
                /\ tbf'[c] = tbf[c] /\ wrote'[c] = wrote[c]
          /\ ( /\ pc[c] = "loop" /\ pc'[c] = "returned"
               /\ batch[c] = Scenario /\ calm /\ c = Latest
               /\ Committed(1) /\ batch[png[1].val] = Scenario
               /\ png[3].len < MIN_USABLE /\ ~jpg[3] )
             => ret[c] = [i \in {1, 2, 3} |->
                            IF i = 1 THEN PngFilename(fdir[c], 1)
                            ELSE IF i = 2 THEN NONE_FILENAME
                            ELSE DUMMY_FILENAME]]_vars

C15_Witness ==
    \E c \in Calls \ {1} :
        /\ pc[c] = "returned" /\ batch[c] = Scenario /\ h[c].alone
        /\ png[1] = Image(c - 1, MIN_USABLE) /\ batch[c - 1] = Scenario
        /\ ret[c][1] = PngFilename(fdir[c], 1)
        /\ ret[c][3] = DUMMY_FILENAME
        /\ [k \in 1..Len(tbf[c]) |-> tbf[c][k][1]] = <<3>>
        /\ fpc[c] = "run" /\ png[3] = Token(tbf[c][1][3])

\* C16: a request with a url whose png is not usable and whose jpg exists
\* is mapped to {directory}/{id}.jpg; no step changes the png or the jpg of
\* an id that has a jpg, no call writes a token for it, and it is in no
\* to_be_found list, so no Fetcher ever handles it.
C16_LegacyJpg ==
    /\ [](\A c \in Calls, i \in Ids :
             jpg[i] => /\ i \notin TbfIds(c)
                       /\ \A w \in 1..Len(wrote[c]) : wrote[c][w][1] # i
                       /\ \A k \in 1..Len(batch[c]) :
                             ( /\ k < idx[c] /\ batch[c][k].id = i
                               /\ ~NullUrl(batch[c][k].url)
                               /\ ~(Readable(i) /\ png[i].len >= MIN_USABLE) )
                                 => ret[c][i] = JpgFilename(fdir[c], i))
    /\ [][\A i \in Ids : /\ jpg'[i] = jpg[i]
                         /\ jpg[i] => png'[i] = png[i]]_vars

C16_Witness ==
    \E c \in Calls :
        /\ pc[c] = "returned" /\ batch[c] = Scenario
        /\ jpg[1] /\ png[1] = Token(0)
        /\ ret[c][1] = JpgFilename(fdir[c], 1)
        /\ TbfIds(c) = {3}
        /\ fpc[c] = "done"

\* C17: when the Fetcher reads {id}.png and finds something else than the
\* token of its item, the step changes no file, starts no provider call,
\* records no failure, and the thread is at the next item of its list (at
\* its end after the last).
C17_StaleAbortNoEffect ==
    [][\A c \in Calls :
          ( /\ fpc[c] = "run"
            /\ Readable(FItem(c)[1])
            /\ png[FItem(c)[1]] # Token(FItem(c)[3])
            /\ <<fpc[c], fidx[c]>> # <<fpc'[c], fidx'[c]>> )
              => /\ png' = png /\ jpg' = jpg
                 /\ fpc'[c] # "fetching"
                 /\ fidx'[c] = fidx[c] + 1
                 /\ fpc'[c] = IF fidx[c] < Len(tbf[c]) THEN "run" ELSE "done"
                 /\ allOk' = allOk /\ commits' = commits
                 /\ pc' = pc /\ ret' = ret]_vars

\* the Fetcher of a call with items for ids 1 and 3 found another token in
\* 1.png, went on, and wrote the thumbnail of id 3
C17_Witness ==
    \E c \in Calls :
        /\ fpc[c] = "done" /\ allOk
        /\ [k \in 1..Len(tbf[c]) |-> tbf[c][k][1]] = <<1, 3>>
        /\ png[1].kind = "token" /\ png[1].val # tbf[c][1][3]
        /\ <<c, 1>> \notin commits
        /\ png[3] = Image(c, MIN_USABLE)

\* C18: whatever happens to an item (the file cannot be read, urlopen
\* raises, the body cannot be read or written), the Fetcher goes on: it
\* passes from an item to the next one only, it ends only after the last
\* item of its list, and at every item it reads the file and compares it
\* with the item's token, then makes the provider call if the two agree.
C18_FailureIsolation ==
    /\ [](\A c \in Calls :
             /\ fpc[c] = "done" => fidx[c] = Len(tbf[c]) + 1
             /\ fpc[c] \in {"run", "fetching", "body"}
                   => fidx[c] \in 1..Len(tbf[c])
             /\ fpc[c] = "run" => ENABLED FetchRead(c))
    /\ [][\A c \in Calls :
             /\ (fpc[c] # "none" /\ fidx'[c] # fidx[c])
                   => /\ fidx'[c] = fidx[c] + 1
                      /\ fpc'[c] \in {"run", "done"}
             /\ (fpc[c] = "run" /\ fidx'[c] = fidx[c]
                     /\ TokenIsCurrent(FItem(c)[1], FItem(c)[3])
                     /\ fpc'[c] # fpc[c])
                   => fpc'[c] = "fetching"]_vars

\* the token file of id 1 cannot be read; the Fetcher went on and wrote the
\* thumbnail of id 3
C18_Witness ==
    \E c \in Calls :
        /\ fpc[c] = "done"
        /\ [k \in 1..Len(tbf[c]) |-> tbf[c][k][1]] = <<1, 3>>
        /\ mode[1] = "wo" /\ png[1] = Token(tbf[c][1][3])
        /\ <<c, 1>> \notin commits
        /\ <<c, 3>> \in commits /\ png[3] = Image(c, MIN_USABLE)

\* C19: a Fetcher makes at most one provider call for an item: a call
\* begins only at the read of the item the thread is at, and when it ends,
\* with or without a thumbnail, the thread has left the item and never
\* comes back to it; its list is fixed when it starts.  An id is fetched
\* only by the Fetcher of a call that missed on it and wrote its token.
C19_NoRetry ==
    /\ [](\A c \in Calls, i \in Ids :
             InFlight(c, i) => \E w \in 1..Len(wrote[c]) :
                                  wrote[c][w] = <<i, FItem(c)[3]>>)
    /\ [][\A c \in Calls :
             /\ (fpc'[c] = "fetching" /\ fpc[c] # "fetching")
                   => fpc[c] = "run" /\ fidx'[c] = fidx[c]
             /\ (fpc[c] \in {"fetching", "body"}
                     /\ fpc'[c] \notin {"fetching", "body"})
                   => fidx'[c] = fidx[c] + 1
             /\ (fpc[c] = "fetching" /\ fpc'[c] = "body")
                   => fidx'[c] = fidx[c]
             /\ fpc[c] # "none"
                   => fidx'[c] >= fidx[c] /\ tbf'[c] = tbf[c]]_vars

\* urlopen raised for the one item of the one call; the thread has ended
\* and the token is still in the file
C19_Witness ==
    \E c \in Calls :
        /\ fpc[c] = "done" /\ ~allOk /\ commits = {}
        /\ Len(tbf[c]) = 1
        /\ png[tbf[c][1][1]] = Token(tbf[c][1][3])
        /\ \A d \in Calls \ {c} : pc[d] = "idle"

\* the ids for which some call of fetch() wrote a token (a miss)
MissedIds ==
    UNION {{wrote[c][w][1] : w \in 1..Len(wrote[c])} : c \in Calls}

\* C20: no step creates, changes or removes a jpg, or changes what open()
\* allows; a step that changes {i}.png leaves a file in place, and i is an
\* id some call of fetch() has classified as a miss.
C20_WriteFootprint ==
    [][/\ jpg' = jpg
       /\ mode' = mode
       /\ \A i \in Ids :
             png'[i] # png[i] => /\ png'[i].kind # "absent"
                                 /\ i \in MissedIds']_vars

\* after the scenario batch: the png of id 1 (a legacy jpg hit) and of id 2
\* (no url) are as they were, the thumbnail of id 3 is written
C20_Witness ==
    \E c \in Calls :
        /\ batch[c] = Scenario /\ fpc[c] = "done"
        /\ jpg[1] /\ png[1] = Token(0)
        /\ png[2] = Image(0, MIN_USABLE)
        /\ png[3] = Image(c, MIN_USABLE)
        /\ MissedIds = {3}

\* the positions of list that hold the first element with their '_id'
FirstAt(list) ==
    {k \in 1..Len(list) :
        \A j \in 1..(k - 1) : list[j].item._id # list[k].item._id}

\* C21: the list remove_duplicate_results returns has no two elements with
\* the same '_id', is the elements of the argument at the first position
\* of each '_id', in the argument's order, and is returned unchanged when
\* the function is applied to it.
C21_RemoveDuplicates ==
    upc = "done" =>
        /\ \A m \in 1..Len(insertions), n \in 1..Len(insertions) :
              insertions[m].item._id = insertions[n].item._id => m = n
        /\ \E f \in [1..Len(insertions) -> 1..Len(list_with_duplicates)] :
              /\ {f[n] : n \in 1..Len(insertions)} = FirstAt(list_with_duplicates)
              /\ \A m \in 1..Len(insertions), n \in 1..Len(insertions) :
                    m < n => f[m] < f[n]
              /\ \A n \in 1..Len(insertions) :
                    insertions[n] = list_with_duplicates[f[n]]
        /\ remove_duplicate_results(insertions) = insertions

C21_Witness ==
    /\ upc = "done"
    /\ list_with_duplicates = <<Elt(2, 1), Elt(1, 1), Elt(2, 2), Elt(1, 2)>>
    /\ insertions = <<Elt(2, 1), Elt(1, 1)>>

\* the results that come before the first stored one
NewPosts ==
    LET at == BreakAt(results)
    IN IF at = 0 THEN results ELSE SubSeq(results, 1, at - 1)

\* C22: get_new_posts returns the results that come before the first
\* stored post, and it ends: the while loop is left after the page in which
\* a stored post is met, and also after a page that comes back empty.
C22_GetNewPosts ==
    /\ [](upc = "returned" => to_be_inserted = NewPosts)
    /\ [][(upc = "while" /\ loops' = loops + 1
              /\ (BreakAt(search(loops * MAX_QUERY)) # 0
                     \/ search(loops * MAX_QUERY) = <<>>))
            => repeat']_vars
====
